---------------------------- MODULE Spec2Model ----------------------------
(* A model of src/app.py: the four Flask handlers (index, callback,        *)
(* select_playlist, remove_artist_tracks) and extract_playlist_id.         *)
(*                                                                         *)
(* A handler blocks on each call it makes to Spotify (requests.post, .get, *)
(* .delete), so a handler is one action up to its first call and one       *)
(* action per response it receives.  A string that the code takes apart    *)
(* (the playlist input) is a sequence of one-character strings; a string   *)
(* it only passes on is a TLA+ string; a string it builds (an f-string, a  *)
(* URL) is the tuple or record of its parts.                               *)
EXTENDS Naturals, Sequences, FiniteSets, TLC

VARIABLES
    config,     \* CLIENT_ID, CLIENT_SECRET, REDIRECT_URI: module globals
    route,      \* per request: the view function that handles it
    args,       \* per request: request.args / request.form, a dict
    pc,         \* per request: where its handler stands
    locals,     \* per request: playlist_id and headers of remove_artist_tracks
    calls,      \* per request: the external calls it issued, in order
    resps,      \* per request: the responses it received, in order
    outcome,    \* per request: what the view function returned
    playlist_input,  \* the argument of a direct extract_playlist_id call
    extracted        \* its return value

vars == <<config, route, args, pc, locals, calls, resps, outcome,
          playlist_input, extracted>>

---------------------------------------------------------------------------
(* Bounds *)

NumRequests == 2    \* requests handled concurrently (SpecConc)
MaxTracks == 2      \* items in one playlist-tracks response
MaxArtists == 2     \* artists credited on one track
MaxChunks == 4      \* pieces an input of extract_playlist_id is built of

---------------------------------------------------------------------------
(* Module constants of app.py *)

StartupConfig ==
    [CLIENT_ID |-> "client-id", CLIENT_SECRET |-> "client-secret",
     REDIRECT_URI |-> "https://kanye-cleaner.onrender.com/callback"]

AUTH_URL == "https://accounts.spotify.com/authorize"
TOKEN_URL == "https://accounts.spotify.com/api/token"
API_BASE_URL == "https://api.spotify.com/v1"
kanye_id == "5K4W6rqBFWDnAN6FQUkS6x"

---------------------------------------------------------------------------
(* extract_playlist_id *)

Lower == {"a","b","c","d","e","f","g","h","i","j","k","l","m",
          "n","o","p","q","r","s","t","u","v","w","x","y","z"}
Upper == {"A","B","C","D","E","F","G","H","I","J","K","L","M",
          "N","O","P","Q","R","S","T","U","V","W","X","Y","Z"}
Digit == {"0","1","2","3","4","5","6","7","8","9"}

\* the character class [a-zA-Z0-9]
AlNum == Lower \cup Upper \cup Digit

\* the literal part of url_pattern, r"https://open\.spotify\.com/playlist/"
url_pattern ==
    <<"h","t","t","p","s",":","/","/","o","p","e","n",".",
      "s","p","o","t","i","f","y",".","c","o","m","/",
      "p","l","a","y","l","i","s","t","/">>

\* the literal part of uri_pattern, r"spotify:playlist:"
uri_pattern ==
    <<"s","p","o","t","i","f","y",":","p","l","a","y","l","i","s","t",":">>

\* the literal lit matches s at position i
LiteralAt(lit, s, i) ==
    /\ i + Len(lit) - 1 <= Len(s)
    /\ \A k \in 1..Len(lit) : s[i + k - 1] = lit[k]

\* [a-zA-Z0-9]+ is greedy: the end of the run of class characters from i on
RECURSIVE RunEnd(_, _)
RunEnd(s, i) ==
    IF i <= Len(s) /\ s[i] \in AlNum THEN RunEnd(s, i + 1) ELSE i

\* lit([a-zA-Z0-9]+) tried at position i: the literal, then one or more
\* class characters
MatchAt(lit, s, i) ==
    /\ LiteralAt(lit, s, i)
    /\ RunEnd(s, i + Len(lit)) > i + Len(lit)

\* mutant of re_search: re.match, which tries the start of the input only
re_match(lit, s) ==
    IF MatchAt(lit, s, 1)
    THEN [matched |-> TRUE,
          group1 |-> SubSeq(s, 1 + Len(lit), RunEnd(s, 1 + Len(lit)) - 1)]
    ELSE [matched |-> FALSE, group1 |-> <<>>]

\* re.search(lit + "([a-zA-Z0-9]+)", s): the match at the leftmost start
\* position that has one, None when no position has one
re_search(lit, s) ==
    LET starts == {i \in 1..Len(s) : MatchAt(lit, s, i)}
    IN  IF starts = {} THEN [matched |-> FALSE, group1 |-> <<>>]
        ELSE LET i == CHOOSE i \in starts : \A j \in starts : i <= j
             IN  [matched |-> TRUE,
                  group1 |-> SubSeq(s, i + Len(lit),
                                    RunEnd(s, i + Len(lit)) - 1)]

extract_playlist_id(input) ==
    LET url_match == re_search(url_pattern, input)
        uri_match == re_search(uri_pattern, input)
    IN  IF url_match.matched THEN url_match.group1
        ELSE IF uri_match.matched THEN uri_match.group1
        ELSE input

\* a direct call of extract_playlist_id
ExtractCall ==
    /\ extracted = <<"<pending>">>
    /\ extracted' = <<"<returned>", extract_playlist_id(playlist_input)>>
    /\ UNCHANGED <<config, route, args, pc, locals, calls, resps, outcome,
                   playlist_input>>

---------------------------------------------------------------------------
(* Values the handlers build *)

\* a dict without keys: request.args of a request without parameters
EmptyDict == [k \in {} |-> ""]

\* mutant of Falsy: `d.get(k) is None`, which lets an empty value pass
Falsy_is_none(d, k, empty) == k \notin DOMAIN d

\* `not d.get(k)`: the key is absent (None) or its value is empty
Falsy(d, k, empty) == k \notin DOMAIN d \/ d[k] = empty

render_template(template, key, value) ==
    [kind |-> "render", template |-> template, key |-> key, value |-> value]

\* redirect(url_for(endpoint, key=value))
redirect(endpoint, key, value) ==
    [kind |-> "redirect", template |-> endpoint, key |-> key, value |-> value]

\* the view function raised, or returned None: Flask answers 500
Raised(exception) ==
    [kind |-> "exception", template |-> "", key |-> exception, value |-> <<>>]

NoOutcome == [kind |-> "none", template |-> "", key |-> "", value |-> <<>>]

NoLocals == [playlist_id |-> <<>>, headers |-> ""]

\* f"{API_BASE_URL}/playlists/{playlist_id}/tracks"
TracksUrl(playlist_id) ==
    [base |-> API_BASE_URL, playlist_id |-> playlist_id, path |-> "tracks"]

\* mutant of Headers: the token is kept in a module global that the first
\* request with a token sets and the later ones reuse
Headers_global(access_token) ==
    LET holders == {q \in DOMAIN args :
                        /\ "access_token" \in DOMAIN args[q]
                        /\ args[q]["access_token"] # ""}
    IN  IF holders = {} THEN access_token
        ELSE args[CHOOSE q \in holders : \A p \in holders : q <= p]["access_token"]

\* headers = {"Authorization": f"Bearer {access_token}"}
Headers(access_token) == access_token

\* the handler of request r returns o
Return(r, o) ==
    /\ outcome' = [outcome EXCEPT ![r] = o]
    /\ pc' = [pc EXCEPT ![r] = "done"]

\* request r arrives at view function view with parameters a
Arrive(r, view, a) ==
    /\ pc[r] = "idle"
    /\ route' = [route EXCEPT ![r] = view]
    /\ args' = [args EXCEPT ![r] = a]

\* requests.post / .get / .delete of request r blocks until the response
Send(r, call, next) ==
    /\ calls' = [calls EXCEPT ![r] = Append(@, call)]
    /\ pc' = [pc EXCEPT ![r] = next]
    /\ UNCHANGED outcome

\* the response resp of the pending call of request r arrives
Receive(r, at, resp) ==
    /\ pc[r] = at
    /\ resps' = [resps EXCEPT ![r] = Append(@, resp)]
    /\ UNCHANGED <<route, args>>

---------------------------------------------------------------------------
(* index *)

Index(r) ==
    /\ Arrive(r, "index", EmptyDict)
    /\ Return(r, render_template("index.html", "auth_url",
            <<AUTH_URL, config.CLIENT_ID, "code", config.REDIRECT_URI,
              "playlist-modify-public playlist-modify-private", "True">>))
    /\ UNCHANGED <<config, locals, calls, resps, playlist_input, extracted>>

---------------------------------------------------------------------------
(* callback *)

TokenPayload(code) ==
    <<"authorization_code", code, config.REDIRECT_URI, config.CLIENT_ID,
      config.CLIENT_SECRET>>

\* mutant of CallbackStart: the code is looked at before the error
CallbackStart_code_first(r, a) ==
    /\ Arrive(r, "callback", a)
    /\ IF "code" \in DOMAIN a
       THEN Send(r, [method |-> "POST",
                     url |-> [base |-> TOKEN_URL, playlist_id |-> <<>>,
                              path |-> ""],
                     bearer |-> "",
                     payload |-> TokenPayload(a["code"])], "await_token")
       ELSE IF "error" \in DOMAIN a
       THEN /\ Return(r, render_template("callback.html", "error",
                                         <<a["error"]>>))
            /\ UNCHANGED calls
       ELSE /\ Return(r, Raised("TypeError"))
            /\ UNCHANGED calls
    /\ UNCHANGED <<config, locals, resps, playlist_input, extracted>>

\* up to requests.post(TOKEN_URL, data=payload)
CallbackStart(r, a) ==
    /\ Arrive(r, "callback", a)
    /\ IF "error" \in DOMAIN a
       THEN /\ Return(r, render_template("callback.html", "error",
                                         <<a["error"]>>))
            /\ UNCHANGED calls
       ELSE IF "code" \in DOMAIN a
       THEN Send(r, [method |-> "POST",
                     url |-> [base |-> TOKEN_URL, playlist_id |-> <<>>,
                              path |-> ""],
                     bearer |-> "",
                     payload |-> TokenPayload(a["code"])], "await_token")
       ELSE \* no branch returns: the view function returns None
            /\ Return(r, Raised("TypeError"))
            /\ UNCHANGED calls
    /\ UNCHANGED <<config, locals, resps, playlist_input, extracted>>

\* mutant of CallbackTokenResponse: the status of the response is not
\* looked at
CallbackTokenResponse_unchecked(r, response) ==
    /\ Receive(r, "await_token", response)
    /\ LET token_data == response.json
       IN  IF "access_token" \notin DOMAIN token_data
           THEN Return(r, Raised("KeyError"))
           ELSE IF "refresh_token" \notin DOMAIN token_data
           THEN Return(r, Raised("KeyError"))
           ELSE Return(r, redirect("select_playlist", "access_token",
                                   <<token_data["access_token"]>>))
    /\ UNCHANGED <<config, locals, calls, playlist_input, extracted>>

\* from the token response on
CallbackTokenResponse(r, response) ==
    /\ Receive(r, "await_token", response)
    /\ IF response.status_code = 200
       THEN LET token_data == response.json
            IN  IF "access_token" \notin DOMAIN token_data
                THEN Return(r, Raised("KeyError"))
                ELSE IF "refresh_token" \notin DOMAIN token_data
                THEN Return(r, Raised("KeyError"))
                ELSE Return(r, redirect("select_playlist", "access_token",
                                        <<token_data["access_token"]>>))
       ELSE Return(r, render_template("callback.html", "error",
                <<"Failed to retrieve access token: ", response.text>>))
    /\ UNCHANGED <<config, locals, calls, playlist_input, extracted>>

---------------------------------------------------------------------------
(* select_playlist *)

SelectPlaylist(r, a) ==
    /\ Arrive(r, "select_playlist", a)
    /\ IF Falsy(a, "access_token", "")
       THEN Return(r, render_template("callback.html", "error",
                                      <<"Access token missing.">>))
       ELSE Return(r, render_template("select_playlist.html", "access_token",
                                      <<a["access_token"]>>))
    /\ UNCHANGED <<config, locals, calls, resps, playlist_input, extracted>>

---------------------------------------------------------------------------
(* remove_artist_tracks *)

\* the inner loop: one entry per artist of the track that is the target
RECURSIVE FilterArtists(_, _, _)
FilterArtists(track, i, acc) ==
    IF i > Len(track["track"]["artists"]) THEN acc
    ELSE FilterArtists(track, i + 1,
            IF track["track"]["artists"][i]["id"] = kanye_id
            THEN Append(acc, [uri |-> track["track"]["uri"]])
            ELSE acc)

\* the outer loop over the items
RECURSIVE FilterTracks(_, _, _)
FilterTracks(tracks, j, acc) ==
    IF j > Len(tracks) THEN acc
    ELSE FilterTracks(tracks, j + 1, FilterArtists(tracks[j], 1, acc))

\* mutant of tracks_to_remove: the artist is not compared, every track is
\* marked
tracks_to_remove_unfiltered(tracks) ==
    [j \in DOMAIN tracks |-> [uri |-> tracks[j]["track"]["uri"]]]

tracks_to_remove(tracks) == FilterTracks(tracks, 1, <<>>)

\* up to requests.get(.../playlists/{playlist_id}/tracks)
RemoveTracksStart(r, form) ==
    /\ Arrive(r, "remove_tracks", form)
    /\ IF Falsy(form, "access_token", "") \/ Falsy(form, "playlist_input", <<>>)
       THEN /\ Return(r, render_template("callback.html", "error",
                        <<"Access token or playlist input missing.">>))
            /\ UNCHANGED <<calls, locals>>
       ELSE LET playlist_id == extract_playlist_id(form["playlist_input"])
            IN  IF playlist_id = <<>>
                THEN /\ Return(r, render_template("callback.html", "error",
                                <<"Invalid playlist URL or URI.">>))
                     /\ UNCHANGED <<calls, locals>>
                ELSE /\ locals' = [locals EXCEPT ![r] =
                            [playlist_id |-> playlist_id,
                             headers |-> Headers(form["access_token"])]]
                     /\ Send(r, [method |-> "GET",
                                 url |-> TracksUrl(playlist_id),
                                 bearer |-> Headers(form["access_token"]),
                                 payload |-> <<>>], "await_tracks")
    /\ UNCHANGED <<config, resps, playlist_input, extracted>>

\* mutant of RemoveTracksGetResponse: the status of the response is not
\* looked at
RemoveTracksGetResponse_unchecked(r, response) ==
    /\ Receive(r, "await_tracks", response)
    /\ LET tracks == response.json["items"]
           to_remove == tracks_to_remove(tracks)
       IN  IF to_remove # <<>>
           THEN Send(r, [method |-> "DELETE",
                         url |-> TracksUrl(locals[r].playlist_id),
                         bearer |-> locals[r].headers,
                         payload |-> to_remove], "await_delete")
           ELSE /\ Return(r, render_template("remove_tracks.html",
                           "message", <<"No tracks to remove.">>))
                /\ UNCHANGED calls
    /\ UNCHANGED <<config, locals, playlist_input, extracted>>

\* from the playlist-tracks response up to requests.delete, or to the end
RemoveTracksGetResponse(r, response) ==
    /\ Receive(r, "await_tracks", response)
    /\ IF response.status_code # 200
       THEN /\ Return(r, render_template("callback.html", "error",
                    <<"Failed to retrieve playlist tracks: ", response.text>>))
            /\ UNCHANGED calls
       ELSE LET tracks == response.json["items"]
                to_remove == tracks_to_remove(tracks)
            IN  IF to_remove # <<>>
                THEN Send(r, [method |-> "DELETE",
                              url |-> TracksUrl(locals[r].playlist_id),
                              bearer |-> locals[r].headers,
                              payload |-> to_remove], "await_delete")
                ELSE /\ Return(r, render_template("remove_tracks.html",
                                "message", <<"No tracks to remove.">>))
                     /\ UNCHANGED calls
    /\ UNCHANGED <<config, locals, playlist_input, extracted>>

\* mutant of RemoveTracksDeleteResponse: a refused DELETE is sent again
RemoveTracksDeleteResponse_retry(r, remove_response) ==
    /\ Receive(r, "await_delete", remove_response)
    /\ IF remove_response.status_code = 200
       THEN /\ Return(r, render_template("remove_tracks.html", "message",
                                         <<"Tracks removed successfully!">>))
            /\ UNCHANGED calls
       ELSE Send(r, calls[r][Len(calls[r])], "await_delete")
    /\ UNCHANGED <<config, locals, playlist_input, extracted>>

\* from the delete response on
RemoveTracksDeleteResponse(r, remove_response) ==
    /\ Receive(r, "await_delete", remove_response)
    /\ IF remove_response.status_code = 200
       THEN Return(r, render_template("remove_tracks.html", "message",
                                      <<"Tracks removed successfully!">>))
       ELSE Return(r, render_template("callback.html", "error",
                <<"Failed to remove tracks: ", remove_response.text>>))
    /\ UNCHANGED <<config, locals, calls, playlist_input, extracted>>

---------------------------------------------------------------------------
(* Inputs: request parameters and the responses of Spotify *)

Tokens == {"tokA", "tokB"}
Codes == {"codeA", "codeB"}
Bodies == {"{\"error\": \"x\"}", "{\"error\": \"y\"}"}

\* the identifier of the scenarios, 37i9dQZF1DXcBWIGoYBM5M, and a second one
ScenarioId ==
    <<"3","7","i","9","d","Q","Z","F","1","D","X","c","B","W","I","G","o",
      "Y","B","M","5","M">>
OtherId == <<"4","u","X","8">>

\* playlist references: the web URL (bare and with a query string), the URI,
\* the bare identifier, and text that is none of them
PlaylistInputs ==
    { url_pattern \o ScenarioId,
      url_pattern \o OtherId \o <<"?","s","i","=","1">>,
      uri_pattern \o ScenarioId,
      OtherId,
      <<"m","y"," ","l","i","s","t">> }

CallbackArgs ==
    {EmptyDict}
    \cup {[error |-> "access_denied"]}
    \cup {[code |-> c] : c \in Codes}
    \cup {[error |-> "access_denied", code |-> c] : c \in Codes}

SelectArgs == {EmptyDict} \cup {[access_token |-> t] : t \in Tokens \cup {""}}

RemoveFormsOf(inputs) ==
    {EmptyDict}
    \cup {[access_token |-> t] : t \in Tokens \cup {""}}
    \cup {[playlist_input |-> p] : p \in inputs \cup {<<>>}}
    \cup {[access_token |-> t, playlist_input |-> p] :
            t \in Tokens \cup {""}, p \in inputs \cup {<<>>}}

RemoveForms == RemoveFormsOf(PlaylistInputs)

\* the JSON bodies of a 200 token response: access_token and refresh_token,
\* either of which may be missing
TokenData ==
    {EmptyDict}
    \cup {[refresh_token |-> "refresh"]}
    \cup {[access_token |-> t] : t \in Tokens}
    \cup {[access_token |-> t, refresh_token |-> "refresh"] : t \in Tokens}

TokenResponses ==
    {[status_code |-> 200, text |-> "<json>", json |-> d] : d \in TokenData}
    \cup {[status_code |-> c, text |-> b, json |-> EmptyDict] :
            c \in {400, 500}, b \in Bodies}

SeqsUpTo(S, n) == UNION {[1..k -> S] : k \in 0..n}

ArtistIds == {kanye_id, "0du5cEVh5yTK9QJze8zA0C"}
TrackUris == {"spotify:track:1", "spotify:track:2"}

\* a track item as the code reads it: item["track"]["uri"] and the "id" of
\* each of item["track"]["artists"]
TrackItems(maxArtists) ==
    {[track |-> [uri |-> u, artists |-> as]] :
        u \in TrackUris, as \in SeqsUpTo({[id |-> a] : a \in ArtistIds}, maxArtists)}

TrackLists == SeqsUpTo(TrackItems(MaxArtists), MaxTracks)

GetResponsesOf(lists) ==
    {[status_code |-> 200, text |-> "<json>", json |-> [items |-> l]] :
        l \in lists}
    \cup {[status_code |-> c, text |-> b, json |-> [items |-> <<>>]] :
            c \in {401, 404}, b \in Bodies}

GetResponses == GetResponsesOf(TrackLists)

DeleteResponses ==
    {[status_code |-> c, text |-> b] : c \in {200, 403}, b \in Bodies}

---------------------------------------------------------------------------
(* One request at a time *)

InitOf(requests) ==
    /\ config = StartupConfig
    /\ route = [r \in requests |-> "none"]
    /\ args = [r \in requests |-> EmptyDict]
    /\ pc = [r \in requests |-> "idle"]
    /\ locals = [r \in requests |-> NoLocals]
    /\ calls = [r \in requests |-> <<>>]
    /\ resps = [r \in requests |-> <<>>]
    /\ outcome = [r \in requests |-> NoOutcome]
    /\ playlist_input = <<>>
    /\ extracted = <<"<no call>">>

Init == InitOf({1})

\* the requests whose handler stands at `at`
At(at) == {r \in DOMAIN pc : pc[r] = at}

Next ==
    \/ \E r \in At("idle") : Index(r)
    \/ \E r \in At("idle"), a \in CallbackArgs : CallbackStart(r, a)
    \/ \E r \in At("await_token"), response \in TokenResponses :
            CallbackTokenResponse(r, response)
    \/ \E r \in At("idle"), a \in SelectArgs : SelectPlaylist(r, a)
    \/ \E r \in At("idle"), form \in RemoveForms : RemoveTracksStart(r, form)
    \/ \E r \in At("await_tracks"), response \in GetResponses :
            RemoveTracksGetResponse(r, response)
    \/ \E r \in At("await_delete"), response \in DeleteResponses :
            RemoveTracksDeleteResponse(r, response)

Spec == Init /\ [][Next]_vars

---------------------------------------------------------------------------
(* Requests handled concurrently (a threaded server): the handlers         *)
(* interleave at their external calls                                      *)

ConcInputs == {uri_pattern \o OtherId, <<"7","Z">>}

\* no item; one item of the target; one item of another artist; one item
\* crediting the target twice; two items with the same URI
ConcTrackLists ==
    LET item(u, as) ==
            [track |-> [uri |-> u, artists |-> [i \in DOMAIN as |-> [id |-> as[i]]]]]
        other == "0du5cEVh5yTK9QJze8zA0C"
    IN  { <<>>,
          <<item("spotify:track:1", <<kanye_id>>)>>,
          <<item("spotify:track:2", <<other>>)>>,
          <<item("spotify:track:1", <<kanye_id, kanye_id>>)>>,
          <<item("spotify:track:2", <<other, kanye_id>>),
            item("spotify:track:2", <<kanye_id>>)>> }

ConcTokenResponses ==
    {[status_code |-> 200, text |-> "<json>",
      json |-> [access_token |-> t, refresh_token |-> "refresh"]] : t \in Tokens}
    \cup {[status_code |-> 400, text |-> "{\"error\": \"x\"}",
           json |-> EmptyDict]}

ConcGetResponses ==
    {r \in GetResponsesOf(ConcTrackLists) :
        r.status_code = 200 \/ (r.status_code = 401 /\ r.text = "{\"error\": \"x\"}")}

ConcDeleteResponses ==
    {r \in DeleteResponses : r.text = "{\"error\": \"x\"}"}

InitConc == InitOf(1..NumRequests)

NextConc ==
    \/ \E r \in At("idle") : Index(r)
    \/ \E r \in At("idle"), a \in CallbackArgs : CallbackStart(r, a)
    \/ \E r \in At("await_token"), response \in ConcTokenResponses :
            CallbackTokenResponse(r, response)
    \/ \E r \in At("idle"), a \in SelectArgs : SelectPlaylist(r, a)
    \/ \E r \in At("idle"), form \in RemoveFormsOf(ConcInputs) :
            RemoveTracksStart(r, form)
    \/ \E r \in At("await_tracks"), response \in ConcGetResponses :
            RemoveTracksGetResponse(r, response)
    \/ \E r \in At("await_delete"), response \in ConcDeleteResponses :
            RemoveTracksDeleteResponse(r, response)

SpecConc == InitConc /\ [][NextConc]_vars

---------------------------------------------------------------------------
(* extract_playlist_id called directly on inputs built of up to MaxChunks  *)
(* pieces                                                                  *)

Chunks ==
    { url_pattern,
      uri_pattern,
      [url_pattern EXCEPT ![13] = "x"],   \* "open" "x" "spotify": no dot
      <<"4","u">>,
      ScenarioId,
      <<"?">> }

RECURSIVE Flatten(_)
Flatten(chunks) ==
    IF chunks = <<>> THEN <<>> ELSE Head(chunks) \o Flatten(Tail(chunks))

ExtractInputs == {Flatten(c) : c \in SeqsUpTo(Chunks, MaxChunks)}

InitExtract ==
    /\ config = StartupConfig
    /\ route = [r \in {1} |-> "none"]
    /\ args = [r \in {1} |-> EmptyDict]
    /\ pc = [r \in {1} |-> "idle"]
    /\ locals = [r \in {1} |-> NoLocals]
    /\ calls = [r \in {1} |-> <<>>]
    /\ resps = [r \in {1} |-> <<>>]
    /\ outcome = [r \in {1} |-> NoOutcome]
    /\ playlist_input \in ExtractInputs
    /\ extracted = <<"<pending>">>

NextExtract == ExtractCall

SpecExtract == InitExtract /\ [][NextExtract]_vars

---------------------------------------------------------------------------
(* Vocabulary of the properties *)

Range(f) == {f[i] : i \in DOMAIN f}

\* an error page: callback.html rendered with error=...
IsErrorPage(o) ==
    o.kind = "render" /\ o.template = "callback.html" /\ o.key = "error"

\* the positions of the calls of request r with method m
CallsOf(r, m) == {i \in DOMAIN calls[r] : calls[r][i].method = m}

\* request r is a /remove_tracks request whose GET was answered
TracksAnswered(r) == route[r] = "remove_tracks" /\ resps[r] # <<>>

\* the URIs of the items that credit the target on at least one artist
MatchingUris(items) ==
    {items[j]["track"]["uri"] : j \in
        {j \in DOMAIN items :
            \E i \in DOMAIN items[j]["track"]["artists"] :
                items[j]["track"]["artists"][i]["id"] = kanye_id}}

\* the items that credit the target
MatchingItems(items) ==
    {j \in DOMAIN items :
        \E i \in DOMAIN items[j]["track"]["artists"] :
            items[j]["track"]["artists"][i]["id"] = kanye_id}

---------------------------------------------------------------------------
(* C1 *)

\* C1: when the playlist-tracks GET returns 200 and N >= 1 distinct tracks
\* credit the target artist, the request issues exactly one DELETE, and its
\* payload lists each matching URI exactly once (N entries, N distinct
\* URIs), also when the target is credited twice on a track or a URI
\* occurs in two items.
C1_OneDeleteOfDistinctUris ==
    \A r \in DOMAIN pc :
        (/\ TracksAnswered(r)
         /\ resps[r][1].status_code = 200
         /\ MatchingUris(resps[r][1].json["items"]) # {})
        => /\ Cardinality(CallsOf(r, "DELETE")) = 1
           /\ LET payload == calls[r][2].payload
                  wanted == MatchingUris(resps[r][1].json["items"])
              IN  /\ {payload[i]["uri"] : i \in DOMAIN payload} = wanted
                  /\ Len(payload) = Cardinality(wanted)

---------------------------------------------------------------------------
(* C2 *)

\* C2: when the playlist-tracks GET returns 200 and no artist of any
\* returned track is the target (the empty list included), the request
\* issues no DELETE and ends with the success page "No tracks to remove.".
C2_NoMatchNoDelete ==
    \A r \in DOMAIN pc :
        (/\ TracksAnswered(r)
         /\ resps[r][1].status_code = 200
         /\ MatchingItems(resps[r][1].json["items"]) = {})
        => /\ CallsOf(r, "DELETE") = {}
           /\ pc[r] = "done"
           /\ outcome[r] = render_template("remove_tracks.html", "message",
                                           <<"No tracks to remove.">>)
           /\ ~IsErrorPage(outcome[r])

\* a request that got a non-empty list without the target and has ended
C2_Witness ==
    \E r \in DOMAIN pc :
        /\ TracksAnswered(r)
        /\ resps[r][1].status_code = 200
        /\ Len(resps[r][1].json["items"]) = 2
        /\ \E j \in 1..2 : resps[r][1].json["items"][j]["track"]["artists"] # <<>>
        /\ MatchingItems(resps[r][1].json["items"]) = {}
        /\ outcome[r].value = <<"No tracks to remove.">>

---------------------------------------------------------------------------
(* C3 *)

\* C3: in callback, when a code is present and the token endpoint answers
\* with a status other than 200, the outcome is an error page that contains
\* the response body and not a redirect; a redirect is issued only after a
\* 200 token response, to select_playlist, with that response's
\* access_token.
C3_TokenFailureNoRedirect ==
    \A r \in DOMAIN pc :
        route[r] = "callback" =>
            /\ ("code" \in DOMAIN args[r] /\ resps[r] # <<>>
                    /\ resps[r][1].status_code # 200)
               => /\ pc[r] = "done"
                  /\ IsErrorPage(outcome[r])
                  /\ resps[r][1].text \in Range(outcome[r].value)
            /\ outcome[r].kind = "redirect"
               => /\ resps[r] # <<>>
                  /\ resps[r][1].status_code = 200
                  /\ outcome[r].template = "select_playlist"
                  /\ outcome[r].key = "access_token"
                  /\ outcome[r].value = <<resps[r][1].json["access_token"]>>

\* a callback with a code whose token exchange was refused
C3_Witness ==
    \E r \in DOMAIN pc :
        /\ route[r] = "callback"
        /\ "code" \in DOMAIN args[r]
        /\ resps[r] # <<>>
        /\ resps[r][1].status_code = 400
        /\ pc[r] = "done"

---------------------------------------------------------------------------
(* C4 *)

\* C4: in remove_artist_tracks, when the playlist-tracks GET returns a
\* status other than 200 the request ends in an error page with the
\* response body; it issued that one GET and nothing else, no DELETE.
C4_GetFailureStops ==
    \A r \in DOMAIN pc :
        (TracksAnswered(r) /\ resps[r][1].status_code # 200)
        => /\ pc[r] = "done"
           /\ IsErrorPage(outcome[r])
           /\ resps[r][1].text \in Range(outcome[r].value)
           /\ Len(calls[r]) = 1
           /\ calls[r][1].method = "GET"
           /\ CallsOf(r, "DELETE") = {}

\* a /remove_tracks request whose GET was answered 404
C4_Witness ==
    \E r \in DOMAIN pc :
        /\ TracksAnswered(r)
        /\ resps[r][1].status_code = 404
        /\ pc[r] = "done"

---------------------------------------------------------------------------
(* C5 *)

\* the positions of s where lit stands, followed by a class character
Occurrences(lit, s) ==
    {i \in 1..Len(s) :
        /\ i + Len(lit) <= Len(s)
        /\ SubSeq(s, i, i + Len(lit) - 1) = lit
        /\ s[i + Len(lit)] \in AlNum}

Least(S) == CHOOSE x \in S : \A y \in S : x <= y

\* <id>: the class characters of s from position k up to the first
\* character outside the class, or the end
IdFrom(s, k) ==
    LET n == CHOOSE n \in 1..(Len(s) - k + 1) :
                /\ \A j \in k..(k + n - 1) : s[j] \in AlNum
                /\ k + n <= Len(s) => s[k + n] \notin AlNum
    IN  SubSeq(s, k, k + n - 1)

\* the reference: the web URL form first, then the URI form, else the input
ReferenceId(s) ==
    LET urls == Occurrences(url_pattern, s)
        uris == Occurrences(uri_pattern, s)
    IN  IF urls # {} THEN IdFrom(s, Least(urls) + Len(url_pattern))
        ELSE IF uris # {} THEN IdFrom(s, Least(uris) + Len(uri_pattern))
        ELSE s

\* C5: extract_playlist_id returns, on every input, what the ordered
\* first-match-wins reference returns: <id> of the first web URL form
\* https://open.spotify.com/playlist/<id> in the input; else <id> of the
\* first URI form spotify:playlist:<id>; else the input unchanged.  The
\* two scenarios give 37i9dQZF1DXcBWIGoYBM5M.  (A form is found anywhere in
\* the input, and <id> is its longest run of letters and digits.)
C5_ExtractIsReference ==
    extracted[1] = "<returned>" =>
        /\ extracted[2] = ReferenceId(playlist_input)
        /\ playlist_input \in {url_pattern \o ScenarioId,
                               uri_pattern \o ScenarioId}
           => extracted[2] = ScenarioId

\* the call returned on an input that holds the URI form before the web
\* URL form and text after the identifier
C5_Witness ==
    /\ extracted[1] = "<returned>"
    /\ playlist_input = uri_pattern \o url_pattern \o <<"4","u">> \o <<"?">>
    /\ extracted[2] = <<"4","u">>

---------------------------------------------------------------------------
(* C6 *)

\* request r lacks a required input
MissingInput(r) ==
    \/ /\ route[r] = "select_playlist"
       /\ ("access_token" \notin DOMAIN args[r] \/ args[r]["access_token"] = "")
    \/ /\ route[r] = "remove_tracks"
       /\ \/ "access_token" \notin DOMAIN args[r]
          \/ args[r]["access_token"] = ""
          \/ "playlist_input" \notin DOMAIN args[r]
          \/ args[r]["playlist_input"] = <<>>

\* C6: when access_token is absent or empty on /select_playlist, or
\* access_token or playlist_input is absent or empty on /remove_tracks, the
\* handler ends in an error page and issues no external call.
C6_MissingInputNoCall ==
    \A r \in DOMAIN pc :
        MissingInput(r)
        => /\ pc[r] = "done"
           /\ IsErrorPage(outcome[r])
           /\ calls[r] = <<>>

\* a /remove_tracks request with a token and an empty playlist input
C6_Witness ==
    \E r \in DOMAIN pc :
        /\ route[r] = "remove_tracks"
        /\ "access_token" \in DOMAIN args[r]
        /\ args[r]["access_token"] = "tokA"
        /\ "playlist_input" \in DOMAIN args[r]
        /\ args[r]["playlist_input"] = <<>>
        /\ pc[r] = "done"

---------------------------------------------------------------------------
(* C7 *)

\* C7: in callback, when the query holds an error field the handler ends
\* with the error page showing that error; it issues no POST to the token
\* endpoint and no redirect, also when a code field is present.
C7_ProviderErrorEndsFlow ==
    \A r \in DOMAIN pc :
        (route[r] = "callback" /\ "error" \in DOMAIN args[r])
        => /\ pc[r] = "done"
           /\ outcome[r] = render_template("callback.html", "error",
                                           <<args[r]["error"]>>)
           /\ calls[r] = <<>>
           /\ outcome[r].kind # "redirect"

\* a callback that carries an error and a code
C7_Witness ==
    \E r \in DOMAIN pc :
        /\ route[r] = "callback"
        /\ DOMAIN args[r] = {"error", "code"}
        /\ pc[r] = "done"

---------------------------------------------------------------------------
(* C8 *)

\* what request r has done and got is what request q has done and got
SameCourse(r, q) ==
    /\ pc[r] = pc[q]
    /\ locals[r] = locals[q]
    /\ calls[r] = calls[q]
    /\ outcome[r] = outcome[q]

\* every external call of request r carries r's own parameters, and what r
\* passes on to the next step is its own token
OwnData(r) ==
    /\ route[r] = "callback" =>
        /\ \A i \in DOMAIN calls[r] :
                /\ calls[r][i].method = "POST"
                /\ calls[r][i].url.base = TOKEN_URL
                /\ calls[r][i].payload[2] = args[r]["code"]
        /\ outcome[r].kind = "redirect" =>
                outcome[r].value = <<resps[r][1].json["access_token"]>>
    /\ (route[r] = "remove_tracks" /\ calls[r] # <<>>) =>
        LET url == [base |-> API_BASE_URL,
                    playlist_id |-> ReferenceId(args[r]["playlist_input"]),
                    path |-> "tracks"]
        IN  \A i \in DOMAIN calls[r] :
            /\ calls[r][i].bearer = args[r]["access_token"]
            /\ calls[r][i].url = url
            /\ calls[r][i].method = "DELETE" =>
                    {calls[r][i].payload[k]["uri"] :
                        k \in DOMAIN calls[r][i].payload}
                    = MatchingUris(resps[r][1].json["items"])
    /\ route[r] \in {"none", "index", "select_playlist"} => calls[r] = <<>>

\* C8: under every interleaving of concurrently handled requests, the
\* configuration is the one loaded at startup; two requests with the same
\* parameters that got the same responses have issued the same calls and
\* reached the same outcome, whatever the other requests did; and every
\* call of a request carries that request's own token, code and playlist.
C8_RequestsIndependent ==
    /\ config = StartupConfig
    /\ \A r \in DOMAIN pc : OwnData(r)
    /\ \A r, q \in DOMAIN pc :
            (r < q /\ route[r] = route[q] /\ args[r] = args[q]
                   /\ resps[r] = resps[q])
            => SameCourse(r, q)

\* two /remove_tracks requests in flight at once, with different tokens and
\* playlists: one waits for its DELETE, the other for its GET
C8_Witness ==
    \E r, q \in DOMAIN pc :
        /\ r # q
        /\ route[r] = "remove_tracks" /\ route[q] = "remove_tracks"
        /\ pc[r] = "await_delete" /\ pc[q] = "await_tracks"
        /\ calls[r][1].bearer = "tokA" /\ calls[q][1].bearer = "tokB"
        /\ calls[r][1].url # calls[q][1].url

---------------------------------------------------------------------------
(* C9 *)

\* the calls of a /remove_tracks request: at most one GET, then at most one
\* DELETE, the DELETE after a 200 GET with a marked track, on the same
\* playlist and with the same bearer token
GetThenDelete(r) ==
    /\ Len(calls[r]) <= 2
    /\ Len(calls[r]) >= 1 => calls[r][1].method = "GET"
    /\ Len(calls[r]) = 2 =>
        /\ calls[r][2].method = "DELETE"
        /\ resps[r] # <<>>
        /\ resps[r][1].status_code = 200
        /\ MatchingItems(resps[r][1].json["items"]) # {}
        /\ calls[r][2].payload # <<>>
        /\ calls[r][2].url = calls[r][1].url
        /\ calls[r][2].bearer = calls[r][1].bearer

\* C9: within one /remove_tracks request the external calls are at most one
\* GET, then at most one DELETE; the DELETE is issued only after the GET of
\* the same playlist returned 200 and a track was marked, with the GET's
\* bearer token; once the request has an outcome it issues no further call
\* and its outcome stays.
C9_GetThenDelete ==
    /\ [](\A r \in DOMAIN pc : route[r] = "remove_tracks" => GetThenDelete(r))
    /\ [][\A r \in DOMAIN pc :
            (route[r] = "remove_tracks" /\ pc[r] = "done")
            => /\ calls'[r] = calls[r]
               /\ outcome'[r] = outcome[r]
               /\ pc'[r] = "done"]_vars

\* a request that issued its GET, then its DELETE, and ended in an error
C9_Witness ==
    \E r \in DOMAIN pc :
        /\ route[r] = "remove_tracks"
        /\ Len(calls[r]) = 2
        /\ Len(resps[r]) = 2
        /\ resps[r][2].status_code = 403
        /\ pc[r] = "done"

---------------------------------------------------------------------------
(* C10 *)

\* C10: for every combination of callback parameters and every token
\* response, the callback handler ends in an error page or in the redirect
\* to playlist selection, also when the request carries neither an error
\* nor a code.
C10_CallbackPageOrRedirect ==
    \A r \in DOMAIN pc :
        (route[r] = "callback" /\ pc[r] = "done")
        => \/ IsErrorPage(outcome[r])
           \/ outcome[r].kind = "redirect" /\ outcome[r].template = "select_playlist"

===========================================================================
